---- MODULE Spec2Model ----
(***************************************************************************)
(* Model of src/main.py: three trading-signal generators, the backtest     *)
(* accounting, the optimizer's objective and the entry-point run.          *)
(*                                                                         *)
(* Representation.  A pandas float is either NaN, written << >>, or a      *)
(* value.  Integer-valued columns (price, signal, positions, holdings,     *)
(* cash, total) hold <<v>>.  Rolling means hold the exact rational         *)
(* <<sum, count>>; the rolling standard deviation holds its square as the  *)
(* rational <<num, den>>; the z-score holds <<sign, num, den>> with        *)
(* z^2 = num/den; the combined portfolio holds <<sum, 3>>.  Comparisons    *)
(* are made by cross-multiplication, so every test the code makes on these *)
(* values is decided exactly.  Floating-point rounding is not modelled.    *)
(* Bar k of the source (0-based) is index k+1 here.                        *)
(***************************************************************************)
EXTENDS Integers, Sequences, FiniteSets, TLC

VARIABLES pc, data, signals, portfolio, params, fval, raised, output, calls, evals

vars == <<pc, data, signals, portfolio, params, fval, raised, output, calls, evals>>

(* ------------------------------ bounds -------------------------------- *)
MaxLen == 3
MaxPrice == 3
MaxWin == 3
MaxObjPrice == 2
MaxEvals == 2

(* ------------------------- program constants -------------------------- *)
initial_capital == 10000
trade_size == 1000

(* --------------------------- pandas floats ---------------------------- *)
NaN == << >>
F(v) == <<v>>
IsNaN(x) == x = << >>
Val(x) == x[1]

(* A column is kept as a sequence (a tuple), as pandas keeps an array. *)
Column(f) == f \o << >>

Min(a, b) == IF a < b THEN a ELSE b
Max(a, b) == IF a > b THEN a ELSE b

RECURSIVE SumRange(_, _, _)
SumRange(f, lo, hi) == IF lo > hi THEN 0 ELSE f[hi] + SumRange(f, lo, hi - 1)

(* Series.fillna(v) *)
fillna(x, v) == Column([t \in 1..Len(x) |-> IF IsNaN(x[t]) THEN F(v) ELSE x[t]])

(* Series.diff(): NaN at the first bar, x[t] - x[t-1] afterwards. *)
diff(x) ==
  Column([t \in 1..Len(x) |->
     IF t = 1 \/ IsNaN(x[t]) \/ IsNaN(x[t - 1]) THEN NaN
     ELSE F(Val(x[t]) - Val(x[t - 1]))])

(* Series.shift(w): the value w bars earlier, NaN where there is none. *)
shift(x, w) ==
  Column([t \in 1..Len(x) |-> IF t - w >= 1 /\ t - w <= Len(x) THEN x[t - w] ELSE NaN])

(* Series - Series, Series + Series, Series * Series, Series * scalar. *)
SSub(x, y) ==
  Column([t \in 1..Len(x) |->
     IF IsNaN(x[t]) \/ IsNaN(y[t]) THEN NaN ELSE F(Val(x[t]) - Val(y[t]))])
SAdd(x, y) ==
  Column([t \in 1..Len(x) |->
     IF IsNaN(x[t]) \/ IsNaN(y[t]) THEN NaN ELSE F(Val(x[t]) + Val(y[t]))])
SMul(x, y) ==
  Column([t \in 1..Len(x) |->
     IF IsNaN(x[t]) \/ IsNaN(y[t]) THEN NaN ELSE F(Val(x[t]) * Val(y[t]))])
SScale(x, k) == Column([t \in 1..Len(x) |-> IF IsNaN(x[t]) THEN NaN ELSE F(Val(x[t]) * k)])
(* scalar - Series *)
RSub(k, x) == Column([t \in 1..Len(x) |-> IF IsNaN(x[t]) THEN NaN ELSE F(k - Val(x[t]))])

(* Series.cumsum(): running sum that skips NaN, NaN kept where it stands. *)
cumsum(x) ==
  LET v == Column([t \in 1..Len(x) |-> IF IsNaN(x[t]) THEN 0 ELSE Val(x[t])])
  IN  Column([t \in 1..Len(x) |-> IF IsNaN(x[t]) THEN NaN ELSE F(SumRange(v, 1, t))])

(* Rolling windows over the closing prices.  The window ending at bar t has *)
(* Min(w, t) observations; a statistic is NaN below min_periods.            *)
RollCount(t, w) == Min(w, t)
RollSum(x, t, w) == SumRange(x, Max(1, t - w + 1), t)
RollSumSq(x, t, w) == SumRange([i \in 1..Len(x) |-> x[i] * x[i]], Max(1, t - w + 1), t)

(* rolling(window=w, min_periods=mp) refuses a negative window and a     *)
(* min_periods larger than the window (ValueError).                       *)
rolling_raises(w, mp) == w < 0 \/ mp > w

rolling_mean(x, w, mp) ==
  Column([t \in 1..Len(x) |->
     IF RollCount(t, w) < mp \/ RollCount(t, w) < 1 THEN NaN
     ELSE <<RollSum(x, t, w), RollCount(t, w)>>])

(* Sample variance (ddof = 1) as num/den; NaN with fewer than two bars. *)
rolling_std(x, w, mp) ==
  Column([t \in 1..Len(x) |->
     LET n == RollCount(t, w)
         s == RollSum(x, t, w)
     IN  IF n < mp \/ n < 2 THEN NaN
         ELSE <<n * RollSumSq(x, t, w) - s * s, n * (n - 1)>>])

(* a > b and a <= b on rationals <<num, den>>, den > 0; False on NaN. *)
RGt(a, b) == ~IsNaN(a) /\ ~IsNaN(b) /\ a[1] * b[2] > b[1] * a[2]
RLe(a, b) == ~IsNaN(a) /\ ~IsNaN(b) /\ a[1] * b[2] <= b[1] * a[2]

Sign(v) == IF v > 0 THEN 1 ELSE IF v < 0 THEN -1 ELSE 0

(* data['Close'] *)
Close(d) == Column([t \in 1..Len(d) |-> F(d[t])])

(* signals['signal'].diff().fillna(0) *)
position_delta(sig) == fillna(diff(sig), 0)

(* signals['positions'] = ... : the column is added to the frame. *)
with_positions(frame) == frame @@ [positions |-> position_delta(frame.signal)]

(* ---------------------- moving_average_strategy ----------------------- *)
moving_average_raises(short_window, long_window) ==
  rolling_raises(short_window, 1) \/ rolling_raises(long_window, 1)

(* Faulty variant: the two averages are swapped in the comparison. *)
crossover_signal_swapped(short_mavg, long_mavg) ==
  Column([t \in 1..Len(short_mavg) |->
     IF RGt(long_mavg[t], short_mavg[t]) THEN F(1) ELSE F(0)])

(* signal = 0.0; .loc[short > long] = 1.0; .loc[short <= long] = 0.0 *)
crossover_signal(short_mavg, long_mavg) ==
  Column([t \in 1..Len(short_mavg) |->
     IF RLe(short_mavg[t], long_mavg[t]) THEN F(0)
     ELSE IF RGt(short_mavg[t], long_mavg[t]) THEN F(1)
     ELSE F(0)])

with_crossover(frame) ==
  frame @@ [signal |-> crossover_signal(frame.short_mavg, frame.long_mavg)]

moving_average_strategy(d, short_window, long_window) ==
  with_positions(with_crossover(
    [price |-> Close(d),
     short_mavg |-> rolling_mean(d, short_window, 1),
     long_mavg |-> rolling_mean(d, long_window, 1)]))

(* ------------------------- momentum_strategy -------------------------- *)
(* Faulty variant: the lag is one bar too long. *)
momentum_one_bar_late(close, window) == SSub(close, shift(close, window + 1))

(* data['Close'] - data['Close'].shift(window) *)
momentum(close, window) == SSub(close, shift(close, window))

(* Faulty variant: the sign of the momentum, which keeps NaN. *)
momentum_signal_keeps_nan(m) ==
  Column([t \in 1..Len(m) |->
     IF IsNaN(m[t]) THEN NaN ELSE IF Val(m[t]) > 0 THEN F(1) ELSE F(0)])

(* np.where(momentum > 0, 1.0, 0.0): a NaN momentum compares False. *)
momentum_signal(m) ==
  Column([t \in 1..Len(m) |-> IF ~IsNaN(m[t]) /\ Val(m[t]) > 0 THEN F(1) ELSE F(0)])

with_momentum_signal(frame) == frame @@ [signal |-> momentum_signal(frame.momentum)]

momentum_strategy(d, window) ==
  with_positions(with_momentum_signal(
    [price |-> Close(d), momentum |-> momentum(Close(d), window)]))

(* ---------------------- mean_reversion_strategy ----------------------- *)
mean_reversion_raises(window) == rolling_raises(window, window)

(* (price - mean) / std as <<sign, num, den>>, z^2 = num/den.  price - mean *)
(* is e/n with e = n*price - sum; std^2 is v/m.  0/0 is NaN; a non-zero     *)
(* numerator over a zero std is an infinity (den = 0).                      *)
z_score(price, mean, std) ==
  Column([t \in 1..Len(price) |->
     IF IsNaN(price[t]) \/ IsNaN(mean[t]) \/ IsNaN(std[t]) THEN NaN
     ELSE IF std[t][1] = 0 /\ mean[t][2] * Val(price[t]) = mean[t][1] THEN NaN
     ELSE <<Sign(mean[t][2] * Val(price[t]) - mean[t][1]),
            (mean[t][2] * Val(price[t]) - mean[t][1])
              * (mean[t][2] * Val(price[t]) - mean[t][1]) * std[t][2],
            mean[t][2] * mean[t][2] * std[t][1]>>])

(* Faulty variant: ~(z >= -1) in place of z < -1, which is True on NaN. *)
reversion_signal_negated_test(z) ==
  Column([t \in 1..Len(z) |->
     IF IsNaN(z[t]) \/ (z[t][1] = -1 /\ z[t][2] > z[t][3]) THEN F(1)
     ELSE IF z[t][1] = 1 /\ z[t][2] > z[t][3] THEN F(-1)
     ELSE F(0)])

(* np.where(z < -1, 1.0, np.where(z > 1, -1.0, 0.0)) *)
reversion_signal(z) ==
  Column([t \in 1..Len(z) |->
     IF ~IsNaN(z[t]) /\ z[t][1] = -1 /\ z[t][2] > z[t][3] THEN F(1)
     ELSE IF ~IsNaN(z[t]) /\ z[t][1] = 1 /\ z[t][2] > z[t][3] THEN F(-1)
     ELSE F(0)])

with_z_score(frame) == frame @@ [z_score |-> z_score(frame.price, frame.mean, frame.std)]
with_reversion_signal(frame) == frame @@ [signal |-> reversion_signal(frame.z_score)]

mean_reversion_strategy(d, window) ==
  with_positions(with_reversion_signal(with_z_score(
    [price |-> Close(d),
     mean |-> rolling_mean(d, window, window),
     std |-> rolling_std(d, window, window)])))

(* -------------------------- backtest_strategy ------------------------- *)
(* positions['crypto'] = signals['signal'] * 1000 *)
positions_crypto(s) == SScale(s.signal, trade_size)

(* (positions['crypto'] * data['Close']).fillna(0.0) *)
holdings(crypto, close) == fillna(SMul(crypto, close), 0)

(* Faulty variant: the position itself, not its change, is charged. *)
cash_without_diff(crypto, close) ==
  RSub(initial_capital, fillna(cumsum(SMul(crypto, close)), 0))

(* initial_capital - (positions['crypto'].diff().fillna(0) * data['Close']) *)
(*                     .cumsum().fillna(0.0)                                *)
cash(crypto, close) ==
  RSub(initial_capital, fillna(cumsum(SMul(fillna(diff(crypto), 0), close)), 0))

(* portfolio['total'] = portfolio['cash'] + portfolio['holdings'] *)
with_total(pf) == pf @@ [total |-> SAdd(pf.cash, pf.holdings)]

portfolio_of(crypto, close) ==
  with_total([holdings |-> holdings(crypto, close), cash |-> cash(crypto, close)])

backtest_strategy(d, s) == portfolio_of(positions_crypto(s), Close(d))

(* ------------------- optimize_parameters.objective -------------------- *)
(* Faulty variant: rounds to the nearest integer instead of truncating. *)
int_rounds(h) == (h + 1) \div 2

(* A parameter is a count of halves (h stands for h/2); int() truncates    *)
(* toward zero.                                                            *)
int(h) == IF h >= 0 THEN h \div 2 ELSE -((-h) \div 2)

(* (a + b + c) / 3, elementwise, as <<sum, 3>> *)
mean_of_three(s) ==
  Column([t \in 1..Len(s) |-> IF IsNaN(s[t]) THEN NaN ELSE <<Val(s[t]), 3>>])

(* (portfolio_ma['total'] + portfolio_mo['total'] + portfolio_mr['total']) / 3 *)
combined_portfolio(pma, pmo, pmr) ==
  mean_of_three(SAdd(SAdd(pma.total, pmo.total), pmr.total))

objective_raises(d, p) ==
  \/ moving_average_raises(int(p[1]), int(p[2]))
  \/ mean_reversion_raises(int(p[4]))
  \/ Len(d) = 0

(* -combined_portfolio.iloc[-1] *)
negated(x) == IF IsNaN(x) THEN NaN ELSE <<-x[1], x[2]>>
negated_last(c) == negated(c[Len(c)])

objective(d, p) ==
  negated_last(
    combined_portfolio(
      backtest_strategy(d, moving_average_strategy(d, int(p[1]), int(p[2]))),
      backtest_strategy(d, momentum_strategy(d, int(p[3]))),
      backtest_strategy(d, mean_reversion_strategy(d, int(p[4])))))

(* ------------------------------ inputs -------------------------------- *)
Prices == 1..MaxPrice
PriceSeries == UNION {[1..n -> Prices] : n \in 1..MaxLen}
(* the series the objective is evaluated on *)
ObjectiveSeries == UNION {[1..n -> 1..MaxObjPrice] : n \in 1..MaxLen}
SignalValues == {F(-1), F(0), F(1)}
Windows == 0..MaxWin
(* Parameter vectors of the objective, in halves.  The windows tried are   *)
(* two that fit a series of two or more bars, the longest history and one  *)
(* bar more; each vector comes whole and with 1/2 added to every component. *)
ObjectiveWindows == {1, 2, MaxLen, MaxLen + 1}
ParamVectors ==
  UNION {{[i \in 1..4 |-> 2 * w[i] + f] : w \in [1..4 -> ObjectiveWindows]} : f \in {0, 1}}

NoFrame == [price |-> << >>, signal |-> << >>, positions |-> << >>]
NoPortfolio == [holdings |-> << >>, cash |-> << >>, total |-> << >>]

(* A frame that carries a given signal column. *)
SignalFrame(d, sig) ==
  [price |-> Close(d), signal |-> sig, positions |-> position_delta(sig)]

(* ------------- the functions applied one call at a time --------------- *)
(* pc: "input" (a price series is given), "signals" (a frame has been      *)
(* made), "done" (the call under study has returned or raised).             *)
InitFn ==
  /\ pc = "input"
  /\ data \in PriceSeries
  /\ signals = NoFrame
  /\ portfolio = NoPortfolio
  /\ params = << >>
  /\ fval = NaN
  /\ raised = FALSE
  /\ output = << >>
  /\ calls = << >>
  /\ evals = 0

FnMovingAverage ==
  /\ pc = "input"
  /\ \E sw \in Windows, lw \in Windows :
       /\ params' = <<sw, lw>>
       /\ raised' = moving_average_raises(sw, lw)
       /\ signals' = IF moving_average_raises(sw, lw) THEN NoFrame
                     ELSE moving_average_strategy(data, sw, lw)
       /\ pc' = IF moving_average_raises(sw, lw) THEN "done" ELSE "signals"
  /\ calls' = <<"moving_average_strategy">>
  /\ UNCHANGED <<data, portfolio, fval, output, evals>>

FnMomentum ==
  /\ pc = "input"
  /\ \E w \in Windows :
       /\ params' = <<w>>
       /\ signals' = momentum_strategy(data, w)
  /\ pc' = "signals"
  /\ calls' = <<"momentum_strategy">>
  /\ UNCHANGED <<data, portfolio, fval, raised, output, evals>>

FnMeanReversion ==
  /\ pc = "input"
  /\ \E w \in Windows :
       /\ params' = <<w>>
       /\ raised' = mean_reversion_raises(w)
       /\ signals' = IF mean_reversion_raises(w) THEN NoFrame
                     ELSE mean_reversion_strategy(data, w)
       /\ pc' = IF mean_reversion_raises(w) THEN "done" ELSE "signals"
  /\ calls' = <<"mean_reversion_strategy">>
  /\ UNCHANGED <<data, portfolio, fval, output, evals>>

(* A caller hands backtest_strategy a frame of its own making. *)
FnSignals ==
  /\ pc = "input"
  /\ \E sig \in [1..Len(data) -> SignalValues] :
       signals' = SignalFrame(data, sig)
  /\ pc' = "signals"
  /\ calls' = <<"signals">>
  /\ UNCHANGED <<data, portfolio, params, fval, raised, output, evals>>

FnBacktest ==
  /\ pc = "signals"
  /\ portfolio' = backtest_strategy(data, signals)
  /\ pc' = "done"
  /\ calls' = Append(calls, "backtest_strategy")
  /\ UNCHANGED <<data, signals, params, fval, raised, output, evals>>

NextFn ==
  \/ FnMovingAverage
  \/ FnMomentum
  \/ FnMeanReversion
  \/ FnSignals
  \/ FnBacktest

SpecFn == InitFn /\ [][NextFn]_vars

(* ------------------- the objective applied to a vector ---------------- *)
InitObj ==
  /\ pc = "input"
  /\ data \in ObjectiveSeries
  /\ signals = NoFrame
  /\ portfolio = NoPortfolio
  /\ params = << >>
  /\ fval = NaN
  /\ raised = FALSE
  /\ output = << >>
  /\ calls = << >>
  /\ evals = 0

FnObjective ==
  /\ pc = "input"
  /\ \E p \in ParamVectors :
       /\ params' = p
       /\ raised' = objective_raises(data, p)
       /\ fval' = IF objective_raises(data, p) THEN NaN ELSE objective(data, p)
  /\ pc' = "done"
  /\ calls' = <<"objective">>
  /\ UNCHANGED <<data, signals, portfolio, output, evals>>

NextObj == FnObjective

SpecObj == InitObj /\ [][NextObj]_vars

(* --------------------------- the entry point -------------------------- *)
(* Faulty variant: the emptiness test never succeeds. *)
empty_never(d) == FALSE

(* DataFrame.empty *)
empty(d) == Len(d) = 0

(* minimize(objective, [30, 90, 20, 30], bounds=[(20, 50), (50, 200),     *)
(* (10, 30), (20, 60)]), in halves.                                        *)
Halves(v) == [i \in 1..Len(v) |-> 2 * v[i]]
initial_guess == Halves(<<30, 90, 20, 30>>)
lower_bounds == Halves(<<20, 50, 10, 20>>)
upper_bounds == Halves(<<50, 200, 30, 60>>)
InBox(x) == \A i \in 1..4 : lower_bounds[i] <= x[i] /\ x[i] <= upper_bounds[i]

(* The points the minimizer may try: the library chooses them; the model  *)
(* lets it pick among the start, the corners of the box and a point with  *)
(* fractional components.                                                  *)
TrialPoints ==
  {x \in {initial_guess, lower_bounds, upper_bounds,
          [i \in 1..4 |-> initial_guess[i] + 1]} : InBox(x)}

(* f(a) < f(b) for objective values <<num, 3>>; False on NaN. *)
Less(a, b) == ~IsNaN(a) /\ ~IsNaN(b) /\ a[1] * b[2] < b[1] * a[2]

Msg(m, a) == [msg |-> m, args |-> a]
Printed(m) == \E i \in 1..Len(output) : output[i].msg = m
Called(f) == \E i \in 1..Len(calls) : calls[i] = f

Init ==
  /\ pc = "start"
  /\ data = << >>
  /\ signals = NoFrame
  /\ portfolio = NoPortfolio
  /\ params = << >>
  /\ fval = NaN
  /\ raised = FALSE
  /\ output = << >>
  /\ calls = << >>
  /\ evals = 0

(* get_crypto_data: the download raises, returns no bars, or returns bars. *)
GetCryptoData ==
  /\ pc = "start"
  /\ \/ /\ data' = << >>
        /\ output' = Append(output, Msg("Error fetching data", <<"download failed">>))
     \/ /\ data' = << >>
        /\ output' = Append(output,
                            Msg("Error fetching data",
                                <<"No data returned from Yahoo Finance.">>))
     \/ /\ data' \in PriceSeries
        /\ output' = output
  /\ calls' = Append(calls, "get_crypto_data")
  /\ pc' = "fetched"
  /\ UNCHANGED <<signals, portfolio, params, fval, raised, evals>>

(* if data.empty: print(...) *)
NoData ==
  /\ pc = "fetched"
  /\ empty(data)
  /\ output' = Append(output, Msg("No data available", <<"BTC-USD">>))
  /\ pc' = "done"
  /\ UNCHANGED <<data, signals, portfolio, params, fval, raised, calls, evals>>

(* optimize_parameters(data): minimize evaluates the objective at the     *)
(* initial guess first.                                                    *)
OptimizeStart ==
  /\ pc = "fetched"
  /\ ~empty(data)
  /\ calls' = calls \o <<"optimize_parameters", "objective">>
  /\ params' = initial_guess
  /\ evals' = 1
  /\ raised' = objective_raises(data, initial_guess)
  /\ fval' = IF objective_raises(data, initial_guess) THEN NaN
             ELSE objective(data, initial_guess)
  /\ pc' = IF objective_raises(data, initial_guess) THEN "crashed" ELSE "minimize"
  /\ UNCHANGED <<data, signals, portfolio, output>>

(* One more evaluation of the objective; the better point is kept. *)
MinimizeEval ==
  /\ pc = "minimize"
  /\ evals < MaxEvals
  /\ \E x \in TrialPoints :
       /\ raised' = objective_raises(data, x)
       /\ pc' = IF objective_raises(data, x) THEN "crashed" ELSE "minimize"
       /\ IF ~objective_raises(data, x) /\ Less(objective(data, x), fval)
          THEN params' = x /\ fval' = objective(data, x)
          ELSE UNCHANGED <<params, fval>>
  /\ evals' = evals + 1
  /\ calls' = Append(calls, "objective")
  /\ UNCHANGED <<data, signals, portfolio, output>>

(* return result.x *)
MinimizeReturn ==
  /\ pc = "minimize"
  /\ pc' = "optimized"
  /\ UNCHANGED <<data, signals, portfolio, params, fval, raised, output, calls, evals>>

(* print(f'Optimal Parameters: ...') *)
PrintOptimal ==
  /\ pc = "optimized"
  /\ output' = Append(output, Msg("Optimal Parameters", params))
  /\ pc' = "printed"
  /\ UNCHANGED <<data, signals, portfolio, params, fval, raised, calls, evals>>

(* Generate signals with optimized parameters *)
GenerateSignals ==
  /\ pc = "printed"
  /\ raised' = (moving_average_raises(int(params[1]), int(params[2]))
                \/ mean_reversion_raises(int(params[4])))
  /\ IF raised'
     THEN pc' = "crashed" /\ UNCHANGED signals
     ELSE /\ pc' = "signals"
          /\ signals' = [ma |-> moving_average_strategy(data, int(params[1]), int(params[2])),
                         mo |-> momentum_strategy(data, int(params[3])),
                         mr |-> mean_reversion_strategy(data, int(params[4]))]
  /\ calls' = calls \o <<"moving_average_strategy", "momentum_strategy",
                         "mean_reversion_strategy">>
  /\ UNCHANGED <<data, portfolio, params, fval, output, evals>>

(* Backtest strategies; combine portfolios *)
BacktestAll ==
  /\ pc = "signals"
  /\ LET pma == backtest_strategy(data, signals.ma)
         pmo == backtest_strategy(data, signals.mo)
         pmr == backtest_strategy(data, signals.mr)
     IN  portfolio' = [ma |-> pma, mo |-> pmo, mr |-> pmr,
                       combined |-> combined_portfolio(pma, pmo, pmr)]
  /\ calls' = calls \o <<"backtest_strategy", "backtest_strategy", "backtest_strategy">>
  /\ pc' = "backtested"
  /\ UNCHANGED <<data, signals, params, fval, raised, output, evals>>

(* plot_results(...) *)
PlotResults ==
  /\ pc = "backtested"
  /\ calls' = Append(calls, "plot_results")
  /\ pc' = "done"
  /\ UNCHANGED <<data, signals, portfolio, params, fval, raised, output, evals>>

Next ==
  \/ GetCryptoData
  \/ NoData
  \/ OptimizeStart
  \/ MinimizeEval
  \/ MinimizeReturn
  \/ PrintOptimal
  \/ GenerateSignals
  \/ BacktestAll
  \/ PlotResults

Spec == Init /\ [][Next]_vars

(* ============================== claims =============================== *)
N == Len(data)
StrictlyIncreasing(d) == \A t \in 2..Len(d) : d[t - 1] < d[t]
Constant(d) == \A t \in 1..Len(d) : d[t] = d[1]
Backtested == pc = "done" /\ Len(calls) = 2 /\ calls[2] = "backtest_strategy"
Made(f) == pc \in {"signals", "done"} /\ Len(calls) >= 1 /\ calls[1] = f /\ ~raised
Evaluated == pc = "done" /\ calls = <<"objective">> /\ ~raised

(* position[k] = 1000 * signal[k], position before the first bar = 0 *)
Position(k) == IF k = 0 THEN 0 ELSE 1000 * Val(signals.signal[k])
TradeCost == [k \in 1..N |-> (Position(k) - Position(k - 1)) * data[k]]

(* C1: after backtest_strategy, cash at every bar t equals 10000 minus the  *)
(* sum over k <= t of (position[k] - position[k-1]) * price[k], with        *)
(* position[k] = 1000 * signal[k] and the position before bar 0 equal to 0, *)
(* for every signal sequence over {-1,0,1}, a non-zero first signal         *)
(* included.                                                                *)
C1_CashLedger ==
  Backtested =>
    \A t \in 1..N : portfolio.cash[t] = F(10000 - SumRange(TradeCost, 1, t))

(* C2: after backtest_strategy on a frame whose position_delta[0] is 0,     *)
(* total_equity[0] equals the initial capital 10000.                        *)
C2_InitialEquity ==
  (Backtested /\ signals.positions[1] = F(0)) => portfolio.total[1] = F(10000)

(* C10: trades are self-financing: at every bar t >= 1,                     *)
(* total[t] - total[t-1] = 1000 * signal[t-1] * (price[t] - price[t-1]).    *)
C10_SelfFinancing ==
  Backtested =>
    \A t \in 2..N :
      /\ ~IsNaN(portfolio.total[t])
      /\ ~IsNaN(portfolio.total[t - 1])
      /\ Val(portfolio.total[t]) - Val(portfolio.total[t - 1])
           = 1000 * Val(signals.signal[t - 1]) * (data[t] - data[t - 1])

(* C10 witness: a short position was held over a price move and then       *)
(* changed, after a non-zero first signal.                                  *)
C10_Witness ==
  /\ Backtested
  /\ calls[1] = "signals"
  /\ N >= 3
  /\ signals.signal[1] = F(1)
  /\ signals.signal[2] = F(-1)
  /\ signals.signal[3] = F(0)
  /\ data[2] # data[1]
  /\ data[3] # data[2]

(* C6: on a strictly increasing series with 1 <= short_window <             *)
(* long_window <= N, the moving-average signal is 1 at every bar with index *)
(* >= long_window - 1.                                                      *)
C6_CrossoverSettles ==
  (/\ Made("moving_average_strategy")
   /\ StrictlyIncreasing(data)
   /\ 1 <= params[1]
   /\ params[1] < params[2]
   /\ params[2] <= N)
  => \A t \in params[2]..N : signals.signal[t] = F(1)

C6_Witness ==
  /\ Made("moving_average_strategy")
  /\ StrictlyIncreasing(data)
  /\ 1 <= params[1]
  /\ params[1] < params[2]
  /\ params[2] < N
  /\ signals.signal[N] = F(1)

(* C7: on a strictly increasing series with 1 <= w < N, the momentum signal *)
(* is 0 at bars 0..w-1 and 1 from bar w on; position_delta has exactly one  *)
(* +1, at bar w, no -1, and 0 everywhere else.                              *)
C7_MomentumOnRise ==
  (/\ Made("momentum_strategy")
   /\ StrictlyIncreasing(data)
   /\ 1 <= params[1]
   /\ params[1] < N)
  => /\ \A t \in 1..params[1] : signals.signal[t] = F(0)
     /\ \A t \in (params[1] + 1)..N : signals.signal[t] = F(1)
     /\ \A t \in 1..N :
          signals.positions[t] = IF t = params[1] + 1 THEN F(1) ELSE F(0)

C7_Witness ==
  /\ Made("momentum_strategy")
  /\ StrictlyIncreasing(data)
  /\ 1 <= params[1]
  /\ params[1] + 1 < N
  /\ signals.positions[params[1] + 1] = F(1)

(* C8: on a constant series with window >= 1, mean_reversion_strategy does  *)
(* not raise, signal and position_delta are 0 at every bar, and the         *)
(* backtest of that frame has total_equity exactly 10000 at every bar.      *)
C8_FlatSeries ==
  (/\ pc \in {"signals", "done"}
   /\ Len(calls) >= 1
   /\ calls[1] = "mean_reversion_strategy"
   /\ Constant(data)
   /\ params[1] >= 1)
  => /\ ~raised
     /\ \A t \in 1..N : signals.signal[t] = F(0) /\ signals.positions[t] = F(0)
     /\ Backtested => \A t \in 1..N : portfolio.total[t] = F(10000)

(* C8 witness: the standard deviation is zero inside a full window. *)
C8_Witness ==
  /\ Backtested
  /\ calls[1] = "mean_reversion_strategy"
  /\ Constant(data)
  /\ params[1] >= 2
  /\ params[1] <= N
  /\ signals.std[N] # NaN
  /\ signals.std[N][1] = 0
  /\ portfolio.total[N] = F(10000)

ObjectiveCalled == pc = "done" /\ calls = <<"objective">>

(* the whole part of a positive parameter given in halves *)
Whole(p) == [i \in 1..4 |-> p[i] \div 2]
Fits(q, n) == \A i \in 1..4 : 1 <= Whole(q)[i] /\ Whole(q)[i] <= n

(* C3: when a window parameter of p exceeds N, f(p) is a finite penalty     *)
(* that is never the minimum over the box: some q in the box whose windows  *)
(* all fit in the history has f(q) < f(p).  Stated for the series on which  *)
(* the fitting vectors do not all score the same as p.                      *)
C3_PenaltyNotOptimal ==
  (/\ Evaluated
   /\ \E i \in 1..4 : Whole(params)[i] > N
   /\ \E q \in ParamVectors : Fits(q, N) /\ objective(data, q) # fval)
  => /\ ~IsNaN(fval)
     /\ \E q \in ParamVectors : Fits(q, N) /\ Less(objective(data, q), fval)

(* C4: when one or more window parameters are >= N, the objective does not  *)
(* raise and returns a defined value, and the momentum and mean-reversion   *)
(* signals are 0 at every bar where their indicator is undefined.           *)
C4_DegenerateWindow ==
  (/\ ObjectiveCalled
   /\ \E i \in 1..4 : Whole(params)[i] >= N)
  => /\ ~raised
     /\ ~IsNaN(fval)
     /\ fval[2] = 3
     /\ LET mo == momentum_strategy(data, Whole(params)[3])
            mr == mean_reversion_strategy(data, Whole(params)[4])
        IN  /\ \A t \in 1..N : IsNaN(mo.momentum[t]) => mo.signal[t] = F(0)
            /\ \A t \in 1..N : IsNaN(mr.z_score[t]) => mr.signal[t] = F(0)

(* C4 witness: the momentum window exceeds the history, the mean window     *)
(* equals it, and the moving-average strategy still traded.                 *)
C4_Witness ==
  /\ ObjectiveCalled
  /\ ~raised
  /\ N >= 2
  /\ Whole(params)[3] > N
  /\ Whole(params)[4] = N
  /\ IsNaN(momentum_strategy(data, Whole(params)[3]).momentum[N])
  /\ ~IsNaN(fval)
  /\ fval # <<-30000, 3>>

(* the vector with the same whole parts and the other fractional part *)
OtherFraction(p) == [i \in 1..4 |-> IF p[i] % 2 = 0 THEN p[i] + 1 ELSE p[i] - 1]

FinalTotal(s) == Val(backtest_strategy(data, s).total[Len(data)])

(* C9: the objective is the negative of the mean of the three final         *)
(* total_equity values obtained with the whole parts of p's components, so  *)
(* a vector with the same whole parts yields the same value.                *)
C9_NegativeMean ==
  Evaluated =>
    /\ fval = <<-(FinalTotal(moving_average_strategy(data, Whole(params)[1],
                                                       Whole(params)[2]))
                  + FinalTotal(momentum_strategy(data, Whole(params)[3]))
                  + FinalTotal(mean_reversion_strategy(data, Whole(params)[4]))),
                3>>
    /\ objective(data, OtherFraction(params)) = fval

(* C9 witness: fractional components, and the strategies traded. *)
C9_Witness ==
  /\ Evaluated
  /\ \A i \in 1..4 : params[i] % 2 = 1
  /\ N = MaxLen
  /\ fval # <<-30000, 3>>

(* C5: when retrieval fails or returns no bars, the run prints the 'No data *)
(* available' diagnostic and ends, and optimize_parameters, the strategy    *)
(* functions, backtest_strategy and plot_results are never invoked; when    *)
(* data is non-empty, the optimized parameters are printed after the        *)
(* optimization has finished and before plot_results is invoked.            *)
C5_EntryPoint ==
  /\ [](/\ (data = << >> /\ pc # "start") => calls = <<"get_crypto_data">>
        /\ (data = << >> /\ pc = "done") =>
             (Len(output) >= 1 /\ output[Len(output)].msg = "No data available")
        /\ Called("plot_results") => Printed("Optimal Parameters")
        /\ Printed("Optimal Parameters") =>
             (/\ Called("optimize_parameters")
              /\ pc \in {"printed", "signals", "backtested", "done", "crashed"})
        /\ (data # << >> /\ pc = "done") =>
             (Printed("Optimal Parameters") /\ Called("plot_results")))
  /\ [][(pc = "fetched" /\ data = << >>) =>
          (pc' = "done" /\ output' = Append(output, Msg("No data available", <<"BTC-USD">>)))]_vars
  /\ [][(pc = "optimized") =>
          (pc' = "printed" /\ output' = Append(output, Msg("Optimal Parameters", params)))]_vars

(* C5 witness: retrieval failed and the run has ended with the diagnostic. *)
C5_Witness ==
  /\ pc = "done"
  /\ data = << >>
  /\ Printed("No data available")
  /\ Printed("Error fetching data")
====
